---- MODULE Spec2Model ----
(***************************************************************************)
(* Model of write_csv_files_to_snowflake.py: read_csv_file and             *)
(* write_csv_to_snowflake, as a caller session that invokes the loader     *)
(* repeatedly against one target table.                                    *)
(*                                                                         *)
(* A file is a sequence of lines, a line a sequence of fields.  A          *)
(* DataFrame is [type, columns, rows], a row being a mapping from column   *)
(* name to cell.  The Python list built by the comprehension is a TLA+     *)
(* sequence tagged "list" at the point where a method is looked up on it.  *)
(***************************************************************************)
EXTENDS Integers, Sequences, FiniteSets, TLC

(* ------------------------------ bounds -------------------------------- *)

\* longest csv_file_paths list a call is given
MaxPaths == 2

\* a session starts no further call once the table holds more rows than
\* this (the table grows with every call that appends)
MaxTableRows == 8

\* default value of the chunksize parameter
DefaultChunksize == 1000

\* the chunksize values a call is given
ChunkSizes == {1, 2, DefaultChunksize}

(* --------------------------- the file system -------------------------- *)

\* the files that exist, by path; "missing.csv" is a path with no file
FileSystem ==
    [p \in {"a.csv", "b.csv", "h.csv", "c.csv", "empty.csv", "bad.csv"} |->
        CASE p = "a.csv"     -> << <<"id", "v">>, <<"1", "x">>, <<"2", "y">> >>
          [] p = "b.csv"     -> << <<"id", "v">>, <<"3", "z">> >>
          [] p = "h.csv"     -> << <<"id", "v">> >>
          [] p = "c.csv"     -> << <<"id", "w">>, <<"4", "q">> >>
          [] p = "empty.csv" -> << >>
          [] p = "bad.csv"   -> << <<"id", "v">>, <<"5", "p">>, <<"6", "r", "s", "t">> >>]

Paths == DOMAIN FileSystem \cup {"missing.csv"}

\* the csv_file_paths lists of at most MaxPaths paths
PathLists == UNION {[1..n -> Paths] : n \in 0..MaxPaths}

\* the tables the target database can hold when the session starts
InitialTables == { <<>>, << [id |-> "0", v |-> "old"] >> }

(* ------------------------------ helpers ------------------------------- *)

Range(s) == {s[j] : j \in 1..Len(s)}

Min(a, b) == IF a <= b THEN a ELSE b

Msg(text, arg) == [text |-> text, arg |-> arg]

Unbound == [type |-> "Unbound", columns |-> <<>>, rows |-> <<>>]

\* position of column c in a header line
ColumnPos(header, c) == CHOOSE j \in 1..Len(header) : header[j] = c

(* --------------------------- read_csv_file ---------------------------- *)

\* variant of pd_read_csv with header = None: the first line is a row like
\* the others and the columns are numbered
pd_read_csv_header_none(csv_file) ==
    IF csv_file \notin DOMAIN FileSystem
    THEN [exc |-> "FileNotFoundError", frame |-> Unbound]
    ELSE LET lines == FileSystem[csv_file] IN
         IF Len(lines) = 0
         THEN [exc |-> "EmptyDataError", frame |-> Unbound]
         ELSE IF \E j \in 2..Len(lines) : Len(lines[j]) > Len(lines[1])
         THEN [exc |-> "ParserError", frame |-> Unbound]
         ELSE [exc |-> "none",
               frame |-> [type |-> "DataFrame",
                          columns |-> [k \in 1..Len(lines[1]) |-> ToString(k - 1)],
                          rows |-> [j \in 1..Len(lines) |->
                              [c \in {ToString(k - 1) : k \in 1..Len(lines[1])} |->
                                  LET k == CHOOSE k \in 1..Len(lines[1]) : ToString(k - 1) = c
                                  IN  IF k <= Len(lines[j]) THEN lines[j][k] ELSE "NaN"]]]]

\* pd.read_csv(csv_file, header = 0): the first line names the columns, every
\* later line is one row; a row shorter than the header is filled with NaN.
\* No file at the path is FileNotFoundError, a file with no line is
\* EmptyDataError, and a line with more fields than the header, coming after
\* lines that fit it, is ParserError.
pd_read_csv(csv_file) ==
    IF csv_file \notin DOMAIN FileSystem
    THEN [exc |-> "FileNotFoundError", frame |-> Unbound]
    ELSE LET lines == FileSystem[csv_file] IN
         IF Len(lines) = 0
         THEN [exc |-> "EmptyDataError", frame |-> Unbound]
         ELSE LET header == lines[1] IN
              IF \E j \in 2..Len(lines) : Len(lines[j]) > Len(header)
              THEN [exc |-> "ParserError", frame |-> Unbound]
              ELSE [exc |-> "none",
                    frame |-> [type |-> "DataFrame",
                               columns |-> header,
                               rows |-> [j \in 1..(Len(lines) - 1) |->
                                   [c \in Range(header) |->
                                       IF ColumnPos(header, c) <= Len(lines[j + 1])
                                       THEN lines[j + 1][ColumnPos(header, c)]
                                       ELSE "NaN"]]]]

\* the except clauses of read_csv_file, in order: the message printed for exc
ReadErrorMessage(exc, csv_file) ==
    CASE exc = "FileNotFoundError" -> Msg("File {} not found", csv_file)
      [] exc = "EmptyDataError"    -> Msg("CSV File {} with empty data or header", csv_file)
      [] exc = "ParserError"       -> Msg("Parse Error when reading CSV File {}", csv_file)
      [] OTHER                     -> Msg("Error reading CSV File {}", csv_file)

\* variant of read_csv_file with csv_file_dataframe = None set before the
\* try: a caught error returns None
read_csv_file_returns_none(csv_file) ==
    LET r == pd_read_csv(csv_file)
        started == << Msg("Reading file {}", csv_file) >>
    IN  IF r.exc = "none"
        THEN [out |-> started, raised |-> "none", value |-> r.frame]
        ELSE [out |-> Append(started, ReadErrorMessage(r.exc, csv_file)),
              raised |-> "none", value |-> Unbound]

\* variant of read_csv_file with an empty DataFrame set before the try: a
\* caught error returns it
read_csv_file_returns_empty(csv_file) ==
    LET r == pd_read_csv(csv_file)
        started == << Msg("Reading file {}", csv_file) >>
    IN  IF r.exc = "none"
        THEN [out |-> started, raised |-> "none", value |-> r.frame]
        ELSE [out |-> Append(started, ReadErrorMessage(r.exc, csv_file)),
              raised |-> "none",
              value |-> [type |-> "DataFrame", columns |-> <<>>, rows |-> <<>>]]

\* variant of read_csv_file whose except clauses print and re-raise
read_csv_file_reraises(csv_file) ==
    LET r == pd_read_csv(csv_file)
        started == << Msg("Reading file {}", csv_file) >>
    IN  IF r.exc = "none"
        THEN [out |-> started, raised |-> "none", value |-> r.frame]
        ELSE [out |-> Append(started, ReadErrorMessage(r.exc, csv_file)),
              raised |-> r.exc, value |-> Unbound]

\* read_csv_file(csv_file): what it prints, what it raises, what it returns.
\* A caught error leaves csv_file_dataframe unassigned, and the return
\* statement, which is outside the try, then raises UnboundLocalError.
read_csv_file(csv_file) ==
    LET r == pd_read_csv(csv_file)
        started == << Msg("Reading file {}", csv_file) >>
    IN  IF r.exc = "none"
        THEN [out |-> started, raised |-> "none", value |-> r.frame]
        ELSE [out |-> Append(started, ReadErrorMessage(r.exc, csv_file)),
              raised |-> "UnboundLocalError", value |-> Unbound]

(* ------------------------------ pd.concat ----------------------------- *)

\* the columns of s that are not in seen, in order
RECURSIVE NewColumns(_, _)
NewColumns(s, seen) ==
    IF s = <<>> THEN <<>>
    ELSE IF Head(s) \in seen THEN NewColumns(Tail(s), seen)
         ELSE <<Head(s)>> \o NewColumns(Tail(s), seen \cup {Head(s)})

\* the union of the frames' columns, in order of first appearance
RECURSIVE UnionColumns(_)
UnionColumns(frames) ==
    IF frames = <<>> THEN <<>>
    ELSE LET rest == UnionColumns(SubSeq(frames, 1, Len(frames) - 1))
         IN  rest \o NewColumns(frames[Len(frames)].columns, Range(rest))

\* the rows of frame over the columns cols, NaN where frame has no such column
Reindexed(frame, cols) ==
    [j \in 1..Len(frame.rows) |->
        [c \in Range(cols) |->
            IF c \in Range(frame.columns) THEN frame.rows[j][c] ELSE "NaN"]]

RECURSIVE ConcatRows(_, _)
ConcatRows(frames, cols) ==
    IF frames = <<>> THEN <<>>
    ELSE Reindexed(Head(frames), cols) \o ConcatRows(Tail(frames), cols)

\* pd.concat(data_frames): row-wise, list order then row order, outer join
\* on the columns
pd_concat(frames) ==
    [type |-> "DataFrame",
     columns |-> UnionColumns(frames),
     rows |-> ConcatRows(frames, UnionColumns(frames))]

(* ------------------------------- to_sql ------------------------------- *)

\* a Python list as the receiver of a method call
PyList(items) == [type |-> "list", items |-> items]

\* the rows sent in batches of chunksize, each batch appended to tbl
RECURSIVE InsertChunks(_, _, _)
InsertChunks(tbl, rows, chunksize) ==
    IF rows = <<>> THEN tbl
    ELSE LET n == Min(chunksize, Len(rows)) IN
         InsertChunks(tbl \o SubSeq(rows, 1, n),
                      SubSeq(rows, n + 1, Len(rows)), chunksize)

\* the rows a receiver holds: those of a DataFrame, or of the frames of a list
FrameRows(self) ==
    IF self.type = "list"
    THEN ConcatRows(self.items, UnionColumns(self.items))
    ELSE self.rows

\* variant of to_sql that accepts the list and writes with
\* if_exists = 'replace'
to_sql_replace(self, tbl, engine, chunksize) ==
    IF engine # "ok"
    THEN [exc |-> engine, table |-> tbl]
    ELSE [exc |-> "none", table |-> InsertChunks(<<>>, FrameRows(self), chunksize)]

\* variant of to_sql that accepts the list and sends the first batch only
to_sql_first_chunk(self, tbl, engine, chunksize) ==
    IF engine # "ok"
    THEN [exc |-> engine, table |-> tbl]
    ELSE [exc |-> "none",
          table |-> tbl \o SubSeq(FrameRows(self), 1,
                                  Min(chunksize, Len(FrameRows(self))))]

\* self.to_sql(table_name, con = engine, if_exists = 'append', chunksize):
\* the attribute lookup comes first, and a list has no to_sql, so nothing
\* is sent to the engine unless self is a DataFrame
to_sql(self, tbl, engine, chunksize) ==
    IF self.type # "DataFrame"
    THEN [exc |-> "AttributeError", table |-> tbl]
    ELSE IF engine # "ok"
         THEN [exc |-> engine, table |-> tbl]
         ELSE [exc |-> "none", table |-> InsertChunks(tbl, self.rows, chunksize)]

\* the except clauses of the write phase, in order: the message printed
WriteErrorMessage(exc) ==
    IF exc = "ConnectionError"
    THEN Msg("Unable to connect to database!", "")
    ELSE Msg("Error writing CSV Files", "")

\* variant of the try statement with the "except ConnectionError" clause only
WriteCatches_connection_only(exc) == exc = "ConnectionError"

\* does the try statement of the write phase catch exc?  ConnectionError and
\* every other Exception are caught
WriteCatches(exc) == exc # "none"

(* ------------------------------- state -------------------------------- *)

VARIABLES
    pc,              \* where the session is: "idle" before the first call,
                     \* "read", "concat", "write" inside a call, "returned"
                     \* or "raised" after it
    csv_file_paths,  \* parameter of the current call
    chunksize,       \* parameter of the current call
    engine,          \* parameter of the current call: how the database
                     \* answers an insert ("ok" or the error it raises)
    data_frames,     \* the list the comprehension has built so far
    full_dataframe,  \* the result of pd.concat, Unbound before it
    table,           \* rows of the target table
    schema,          \* columns of the target table
    stdout,          \* what the current call has printed
    opened,          \* the paths the current call has passed to pd.read_csv
    write_attempts,  \* how often the current call has reached the to_sql statement
    ret,             \* return value of the call: "True", or "None" when none
    exc,             \* exception the call raised to its caller, or "none"
    raised_at,       \* source line of the statement that raised it, 0 when none
    pre,             \* the table when the current call started
    prev             \* outcome of the call before, kept when the current
                     \* call has the same csv_file_paths

vars == <<pc, csv_file_paths, chunksize, engine, data_frames, full_dataframe,
          table, schema, stdout, opened, write_attempts, ret, exc, raised_at,
          pre, prev>>

\* the ways the database answers an insert
Engines == {"ok", "ConnectionError"}

NoPrev == [valid |-> FALSE, outcome |-> "none", pre |-> <<>>, post |-> <<>>]

Init ==
    /\ pc = "idle"
    /\ csv_file_paths = <<>>
    /\ chunksize = DefaultChunksize
    /\ engine = "ok"
    /\ data_frames = <<>>
    /\ full_dataframe = Unbound
    /\ table \in InitialTables
    /\ schema = <<"id", "v">>
    /\ stdout = <<>>
    /\ opened = <<>>
    /\ write_attempts = 0
    /\ ret = "None"
    /\ exc = "none"
    /\ raised_at = 0
    /\ pre = table
    /\ prev = NoPrev

(* ------------------------ write_csv_to_snowflake ---------------------- *)

\* variant of the check that tests "csv_file_paths is None": false of every list
IsEmpty_none_only(paths) == FALSE

\* "not csv_file_paths": true of the empty list
IsEmpty(paths) == Len(paths) = 0

\* entry of write_csv_to_snowflake(engine, table_name, csv_file_paths,
\* chunksize) and its check of the list
Call ==
    /\ pc \in {"idle", "returned", "raised"}
    /\ Len(table) <= MaxTableRows
    /\ \E paths \in PathLists, cs \in ChunkSizes, e \in Engines :
        /\ csv_file_paths' = paths
        /\ chunksize' = cs
        /\ engine' = e
        /\ prev' = IF pc # "idle" /\ paths = csv_file_paths
                   THEN [valid |-> TRUE, outcome |-> pc, pre |-> pre, post |-> table]
                   ELSE NoPrev
        /\ IF IsEmpty(paths)
           THEN /\ pc' = "raised"
                /\ exc' = "ValueError"
                /\ raised_at' = 54
           ELSE /\ pc' = "read"
                /\ exc' = "none"
                /\ raised_at' = 0
    /\ pre' = table
    /\ data_frames' = <<>>
    /\ full_dataframe' = Unbound
    /\ stdout' = <<>>
    /\ opened' = <<>>
    /\ write_attempts' = 0
    /\ ret' = "None"
    /\ UNCHANGED <<table, schema>>

\* one iteration of [read_csv_file(csv_file) for csv_file in csv_file_paths]
ReadStep ==
    /\ pc = "read"
    /\ Len(data_frames) < Len(csv_file_paths)
    /\ LET csv_file == csv_file_paths[Len(data_frames) + 1]
           r == read_csv_file(csv_file)
       IN  /\ stdout' = stdout \o r.out
           /\ opened' = Append(opened, csv_file)
           /\ IF r.raised # "none"
              THEN /\ pc' = "raised"
                   /\ exc' = r.raised
                   /\ raised_at' = 32
                   /\ data_frames' = data_frames
              ELSE /\ data_frames' = Append(data_frames, r.value)
                   /\ pc' = IF Len(data_frames) + 1 = Len(csv_file_paths)
                            THEN "concat" ELSE "read"
                   /\ UNCHANGED <<exc, raised_at>>
    /\ UNCHANGED <<csv_file_paths, chunksize, engine, full_dataframe, table,
                   schema, write_attempts, ret, pre, prev>>

\* full_dataframe = pd.concat(data_frames)
Concat ==
    /\ pc = "concat"
    /\ full_dataframe' = pd_concat(data_frames)
    /\ pc' = "write"
    /\ UNCHANGED <<csv_file_paths, chunksize, engine, data_frames, table,
                   schema, stdout, opened, write_attempts, ret, exc, raised_at,
                   pre, prev>>

\* the write phase: the print, the try statement around
\* data_frames.to_sql(...), and return True
Write ==
    /\ pc = "write"
    /\ LET r == to_sql(PyList(data_frames), table, engine, chunksize)
           started == Append(stdout, Msg("Writing files to table {}", "table_name"))
       IN  /\ table' = r.table
           /\ write_attempts' = write_attempts + 1
           /\ IF r.exc = "none"
              THEN /\ stdout' = started
                   /\ pc' = "returned"
                   /\ ret' = "True"
                   /\ UNCHANGED <<exc, raised_at>>
              ELSE IF WriteCatches(r.exc)
              THEN /\ stdout' = Append(started, WriteErrorMessage(r.exc))
                   /\ pc' = "returned"
                   /\ ret' = "True"
                   /\ UNCHANGED <<exc, raised_at>>
              ELSE /\ stdout' = started
                   /\ pc' = "raised"
                   /\ ret' = "None"
                   /\ exc' = r.exc
                   /\ raised_at' = 63
    /\ UNCHANGED <<csv_file_paths, chunksize, engine, data_frames,
                   full_dataframe, schema, opened, pre, prev>>

Next == Call \/ ReadStep \/ Concat \/ Write

Spec == Init /\ [][Next]_vars

(* ------------------------- the call as a whole ------------------------ *)

\* the list comprehension run to its end: the frames read, or the exception
\* of the first read_csv_file that raises
RECURSIVE ReadAll(_)
ReadAll(paths) ==
    IF paths = <<>> THEN [raised |-> "none", frames |-> <<>>]
    ELSE LET r == read_csv_file(Head(paths)) IN
         IF r.raised # "none" THEN [raised |-> r.raised, frames |-> <<>>]
         ELSE LET rest == ReadAll(Tail(paths)) IN
              IF rest.raised # "none" THEN rest
              ELSE [raised |-> "none", frames |-> <<r.value>> \o rest.frames]

\* write_csv_to_snowflake(eng, table_name, paths, cs) called when the table
\* holds tbl: the table it leaves, what it returns and what it raises
write_csv_to_snowflake(eng, tbl, paths, cs) ==
    IF IsEmpty(paths)
    THEN [table |-> tbl, ret |-> "None", exc |-> "ValueError"]
    ELSE LET rd == ReadAll(paths) IN
         IF rd.raised # "none"
         THEN [table |-> tbl, ret |-> "None", exc |-> rd.raised]
         ELSE LET w == to_sql(PyList(rd.frames), tbl, eng, cs) IN
              IF w.exc = "none" \/ WriteCatches(w.exc)
              THEN [table |-> w.table, ret |-> "True", exc |-> "none"]
              ELSE [table |-> w.table, ret |-> "None", exc |-> w.exc]

(* --------------------- vocabulary of the properties ------------------- *)

Finished == pc \in {"returned", "raised"}

IsPrefix(s, t) == Len(s) <= Len(t) /\ SubSeq(t, 1, Len(s)) = s

\* a well-formed file: a header line of distinct column names, and every
\* later line with one field per column
WellFormed(path) ==
    /\ path \in DOMAIN FileSystem
    /\ Len(FileSystem[path]) >= 1
    /\ LET lines == FileSystem[path] IN
        /\ Len(lines[1]) >= 1
        /\ \A j, k \in 1..Len(lines[1]) : lines[1][j] = lines[1][k] => j = k
        /\ \A j \in 2..Len(lines) : Len(lines[j]) = Len(lines[1])

AllWellFormed(paths) == \A k \in 1..Len(paths) : WellFormed(paths[k])

IdenticalColumns(paths) ==
    \A j, k \in 1..Len(paths) : FileSystem[paths[j]][1] = FileSystem[paths[k]][1]

\* the header H and the data lines of a well-formed file
Header(path) == FileSystem[path][1]

DataLines(path) == Tail(FileSystem[path])

\* data line number j of the file as a row keyed by the header
FileRow(path, j) ==
    [c \in Range(Header(path)) |-> DataLines(path)[j][ColumnPos(Header(path), c)]]

FileRows(path) == [j \in 1..Len(DataLines(path)) |-> FileRow(path, j)]

\* the rows of the files of the list, in file order then row order
RECURSIVE AllFileRows(_)
AllFileRows(paths) ==
    IF paths = <<>> THEN <<>> ELSE FileRows(Head(paths)) \o AllFileRows(Tail(paths))

\* the messages read_csv_file prints when it catches an error
ReadErrorTexts ==
    {"File {} not found", "CSV File {} with empty data or header",
     "Parse Error when reading CSV File {}", "Error reading CSV File {}"}

\* the current call has caught an error in read_csv_file
ReadErrorCaught == \E k \in 1..Len(stdout) : stdout[k].text \in ReadErrorTexts

\* the file the current call could not read is not there, is empty, or is malformed
ReadFails(path) == pd_read_csv(path).exc # "none"

SomeReadFails(paths) == \E k \in 1..Len(paths) : ReadFails(paths[k])

(* ------------------------------ sanity -------------------------------- *)

TypeOK ==
    /\ pc \in {"idle", "read", "concat", "write", "returned", "raised"}
    /\ csv_file_paths \in PathLists
    /\ chunksize \in ChunkSizes
    /\ engine \in Engines
    /\ ret \in {"None", "True"}
    /\ exc \in {"none", "ValueError", "UnboundLocalError"}
    /\ raised_at \in {0, 32, 54}
    /\ write_attempts \in {0, 1}
    /\ Len(data_frames) <= Len(csv_file_paths)
    /\ Len(opened) <= Len(csv_file_paths)

\* the steps of a call end where the call taken as a whole ends
StepsAgree ==
    (Finished /\ pc # "idle") =>
        LET o == write_csv_to_snowflake(engine, pre, csv_file_paths, chunksize)
        IN  o.table = table /\ o.ret = ret /\ o.exc = exc

(* ------------------------------ properties ---------------------------- *)

\* the current call was given well-formed files with identical columns
WellFormedCall ==
    /\ Len(csv_file_paths) > 0
    /\ AllWellFormed(csv_file_paths)
    /\ IdenticalColumns(csv_file_paths)

\* C1: when a call given a non-empty list of well-formed files with
\* identical columns has returned True, the table holds the rows it held
\* before the call followed by the rows of the files, in file order then
\* row order.
C1_AppendsAllRows ==
    (pc = "returned" /\ ret = "True" /\ WellFormedCall) =>
        table = pre \o AllFileRows(csv_file_paths)

\* C2: a call given the empty list raises ValueError at once and does no
\* I/O: it reads no file, prints nothing, attempts no write and leaves the
\* table as it was.
C2_EmptyListRaises ==
    (pc # "idle" /\ csv_file_paths = <<>>) =>
        /\ pc = "raised"
        /\ exc = "ValueError"
        /\ raised_at = 54
        /\ ret = "None"
        /\ stdout = <<>>
        /\ opened = <<>>
        /\ data_frames = <<>>
        /\ write_attempts = 0
        /\ table = pre

C2_Witness ==
    /\ pc = "raised"
    /\ csv_file_paths = <<>>
    /\ exc = "ValueError"
    /\ Len(table) > 0

\* the list of the current call names a file that does not exist
NamesMissingFile ==
    \E k \in 1..Len(csv_file_paths) : csv_file_paths[k] \notin DOMAIN FileSystem

\* C3: when the list names a file that does not exist, read_csv_file returns
\* no dataset for that path and the call never returns True: once over, it
\* has raised an exception to its caller.
C3_MissingFileRaises ==
    NamesMissingFile =>
        /\ pc # "returned"
        /\ ret # "True"
        /\ \A k \in 1..Len(data_frames) : csv_file_paths[k] \in DOMAIN FileSystem
        /\ Finished => (pc = "raised" /\ exc # "none")
        /\ \A k \in 1..Len(opened) :
              opened[k] \notin DOMAIN FileSystem =>
                  (k = Len(opened) /\ pc = "raised" /\ Len(data_frames) = k - 1)

C3_Witness ==
    /\ pc = "raised"
    /\ Len(csv_file_paths) = 2
    /\ WellFormed(csv_file_paths[1])
    /\ csv_file_paths[2] \notin DOMAIN FileSystem
    /\ opened = csv_file_paths
    /\ Len(data_frames) = 1
    /\ exc = "UnboundLocalError"

\* what the to_sql statement of the current call raises
WriteFailure == to_sql(PyList(data_frames), pre, engine, chunksize).exc

\* C4: when every file was read and concatenated and the write phase fails,
\* the failure is caught, a message is printed, and the call returns True
\* with no exception raised to the caller.
C4_WriteFailureReturnsTrue ==
    (write_attempts > 0 /\ WriteFailure # "none") =>
        /\ pc = "returned"
        /\ ret = "True"
        /\ exc = "none"
        /\ raised_at = 0
        /\ full_dataframe.type = "DataFrame"
        /\ Len(data_frames) = Len(csv_file_paths)
        /\ stdout[Len(stdout)].text \in
              {"Unable to connect to database!", "Error writing CSV Files"}

C4_Witness ==
    /\ pc = "returned"
    /\ write_attempts = 1
    /\ WriteFailure # "none"
    /\ ret = "True"
    /\ stdout[Len(stdout)].text = "Error writing CSV Files"
    /\ Len(full_dataframe.rows) = 3

\* C5 as stated: a call raises only when the list is empty; a call given a
\* non-empty list ends returning True.
C5_RaisesOnlyOnEmptyList ==
    (Finished /\ Len(csv_file_paths) > 0) => (pc = "returned" /\ ret = "True")

\* C5 amended: a call given the empty list raises ValueError; a call given
\* a non-empty list with a file that cannot be read raises the
\* UnboundLocalError of read_csv_file; a call whose files are all read and
\* concatenated returns True, whatever happens while writing.
C5_RaisesOnEmptyListOrReadError ==
    Finished =>
        /\ Len(csv_file_paths) = 0 => (pc = "raised" /\ exc = "ValueError")
        /\ (Len(csv_file_paths) > 0 /\ SomeReadFails(csv_file_paths)) =>
              (pc = "raised" /\ exc = "UnboundLocalError" /\ raised_at = 32)
        /\ (Len(csv_file_paths) > 0 /\ ~SomeReadFails(csv_file_paths)) =>
              (pc = "returned" /\ ret = "True" /\ exc = "none")

C5_Witness ==
    /\ pc = "raised"
    /\ exc = "UnboundLocalError"
    /\ Len(csv_file_paths) = 2
    /\ csv_file_paths[1] = "empty.csv"

\* C6: the batch size does not change the outcome: a call given well-formed
\* files ends with the table and the return value that the same call, on
\* the same table, ends with under every other batch size.
C6_BatchSizeIrrelevant ==
    (Finished /\ WellFormedCall) =>
        \A cs \in ChunkSizes :
            LET o == write_csv_to_snowflake(engine, pre, csv_file_paths, cs)
            IN  o.table = table /\ o.ret = ret

C6_Witness ==
    /\ pc = "returned"
    /\ WellFormedCall
    /\ chunksize = 1
    /\ Len(AllFileRows(csv_file_paths)) = 3
    /\ engine = "ok"

\* the current call repeats the call before it, which returned, on the
\* table that call left, with well-formed files holding at least one row
RepeatedCall ==
    /\ prev.valid
    /\ prev.outcome = "returned"
    /\ prev.post = pre
    /\ WellFormedCall
    /\ Len(AllFileRows(csv_file_paths)) > 0

\* C7: the call is not idempotent: made twice in succession with the same
\* well-formed files, it appends their rows twice, and the table after the
\* second call differs from the table after the first.
C7_NotIdempotent ==
    (pc = "returned" /\ RepeatedCall) =>
        /\ table # prev.post
        /\ table = prev.pre \o AllFileRows(csv_file_paths)
                            \o AllFileRows(csv_file_paths)

\* C8: for a well-formed file with header H and N data lines, read_csv_file
\* returns N rows, each keyed by exactly the columns of H, row j holding the
\* fields of data line j.
C8_ReaderKeepsRows ==
    \A k \in 1..Len(data_frames) :
        WellFormed(csv_file_paths[k]) =>
            LET path == csv_file_paths[k]
                frame == data_frames[k]
            IN  /\ frame.type = "DataFrame"
                /\ frame.columns = Header(path)
                /\ Len(frame.rows) = Len(DataLines(path))
                /\ \A j \in 1..Len(frame.rows) :
                      /\ DOMAIN frame.rows[j] = Range(Header(path))
                      /\ \A n \in 1..Len(Header(path)) :
                            frame.rows[j][Header(path)[n]] = DataLines(path)[j][n]

C8_Witness ==
    /\ Len(data_frames) = 2
    /\ csv_file_paths = <<"a.csv", "h.csv">>
    /\ Len(data_frames[1].rows) = 2
    /\ Len(data_frames[2].rows) = 0
    /\ data_frames[1].rows[2]["v"] = "y"

\* C9: append only: at every point of a call, and after it whether it
\* returned or raised, the rows the table held before the call are its
\* first rows, unchanged and in order, and the columns of the table are
\* what they were.
C9_AppendOnly ==
    /\ IsPrefix(pre, table)
    /\ schema = <<"id", "v">>

C9_Witness ==
    /\ pc = "returned"
    /\ write_attempts = 1
    /\ Len(pre) > 0
    /\ engine = "ok"
    /\ WellFormedCall

\* C10 as stated: after read_csv_file has caught an error, the call goes on
\* to the concatenation, so that it ends with an exception raised by the
\* concatenation statement (line 57) or returning True.
C10_ReadErrorReachesConcat ==
    (Finished /\ ReadErrorCaught) =>
        \/ (pc = "raised" /\ raised_at = 57)
        \/ (pc = "returned" /\ ret = "True")

\* C10 amended: after read_csv_file has caught and logged an error, its
\* return statement (line 32) raises UnboundLocalError, which ends the call:
\* no later file is read, the concatenation and the write phase are not
\* reached, the table is untouched and the call does not return True.
C10_ReadErrorRaisesInReader ==
    ReadErrorCaught =>
        /\ pc = "raised"
        /\ exc = "UnboundLocalError"
        /\ raised_at = 32
        /\ stdout[Len(stdout)].text \in ReadErrorTexts
        /\ ReadFails(opened[Len(opened)])
        /\ Len(data_frames) = Len(opened) - 1
        /\ full_dataframe.type = "Unbound"
        /\ write_attempts = 0
        /\ ret = "None"
        /\ table = pre

C10_Witness ==
    /\ pc = "raised"
    /\ ReadErrorCaught
    /\ csv_file_paths = <<"bad.csv", "a.csv">>
    /\ opened = <<"bad.csv">>
    /\ exc = "UnboundLocalError"

====
